---- MODULE Spec2Model ----
(***************************************************************************)
(* Model of pymia's evaluation base objects: ConfusionMatrix and Distances *)
(* (src/pymia/evaluation/metric/base.py).                                  *)
(*                                                                         *)
(* Number representation.                                                  *)
(*  - An array is a record [shape, data]; data maps 0-based index tuples   *)
(*    to values.                                                           *)
(*  - A distance d (a float in the code) is represented by its square d*d, *)
(*    an integer because the modelled spacings are integers; Inf stands    *)
(*    for numpy's +infinity and compares greater than every other value.   *)
(*    Squaring is strictly monotone on non-negative reals, so order,       *)
(*    equality and zero are preserved.                                     *)
(*  - The normal table is kept in units of 1/8 (0.125 -> 1, 0.5 -> 4), and *)
(*    a surface area a is represented by the fixed-point integer           *)
(*    sum of floor(AreaScale * 8 * norm).                                  *)
(*  - Python's None is the empty set, and a value x that is present is     *)
(*    {x}, so that an attribute may be compared with None.                 *)
(***************************************************************************)
EXTENDS Integers, Sequences, FiniteSets, TLC

VARIABLES prediction, label, spacing, pc,
          confusion_matrix,
          distances_gt_to_pred, distances_pred_to_gt,
          surfel_areas_gt, surfel_areas_pred,
          image_dimension, self_shape, self_indexing,
          shape_arg, returned, calls, computations

\* the fields of a VoxelWiseIndexing, the argument and the result of its
\* latest call, the number of calls and the number of index lists built
indexing_vars == <<image_dimension, self_shape, self_indexing,
                   shape_arg, returned, calls, computations>>

vars == <<prediction, label, spacing, pc, confusion_matrix,
          distances_gt_to_pred, distances_pred_to_gt,
          surfel_areas_gt, surfel_areas_pred, indexing_vars>>

(***************************************************************************)
(* Bounds of the model.                                                    *)
(***************************************************************************)
\* largest number of foreground voxels of an enumerated (sparse) mask
MaxFg == 2
\* largest label value of a volume given to ConfusionMatrix
MaxLabel == 2
\* fixed-point resolution of a surface area
AreaScale == 512

(***************************************************************************)
(* Python values.                                                          *)
(***************************************************************************)
None == {}

Some(x) == {x}

Val(o) == CHOOSE x \in o : TRUE

Inf == -1

\* a <= b on distances, +infinity being the greatest value
LeqDist(a, b) == (b = Inf) \/ (a # Inf /\ a <= b)

RECURSIVE SumSeq(_)
SumSeq(s) == IF s = <<>> THEN 0 ELSE Head(s) + SumSeq(Tail(s))

RECURSIVE ProdSeq(_)
ProdSeq(s) == IF s = <<>> THEN 1 ELSE Head(s) * ProdSeq(Tail(s))

MinOf(S) == CHOOSE x \in S : \A y \in S : x <= y

MaxOf(S) == CHOOSE x \in S : \A y \in S : x >= y

(***************************************************************************)
(* numpy arrays.                                                           *)
(***************************************************************************)
Indices(shape) ==
  IF Len(shape) = 2
    THEN {<<i, j>> : i \in 0..(shape[1] - 1), j \in 0..(shape[2] - 1)}
    ELSE {<<i, j, k>> : i \in 0..(shape[1] - 1), j \in 0..(shape[2] - 1),
                        k \in 0..(shape[3] - 1)}

\* an array held by value: the same function as f, its elements computed once
np_array(f) == IF f = f THEN f ELSE f

ndim(arr) == Len(arr.shape)

size(arr) == ProdSeq(arr.shape)

\* the position of flat (row-major, C order) index i of a 3-D shape
unravel_index(i, shape) ==
  << i \div (shape[2] * shape[3]), (i \div shape[3]) % shape[2], i % shape[3] >>

\* the False positions of a boolean mask, in row-major order
false_positions(mask, shape) ==
  LET flat == [i \in 1..ProdSeq(shape) |-> unravel_index(i - 1, shape)]
  IN  SelectSeq(flat, LAMBDA p : ~mask[p])

\* the True positions of a boolean mask, in row-major order
true_positions(mask, shape) ==
  LET flat == [i \in 1..ProdSeq(shape) |-> unravel_index(i - 1, shape)]
  IN  SelectSeq(flat, LAMBDA p : mask[p])

\* arr[mask], mask given by its True positions: the values of arr there
boolean_index(arr, positions) == [i \in 1..Len(positions) |-> arr[positions[i]]]

(***************************************************************************)
(* ConfusionMatrix.__init__                                                *)
(***************************************************************************)
\* numpy broadcasting: shapes are aligned at their last axis, and an axis
\* of size 1 is stretched to the size of the other operand
aligned_shape(shape, n) ==
  [i \in 1..n |-> IF i <= n - Len(shape) THEN 1 ELSE shape[i - (n - Len(shape))]]

broadcastable(s1, s2) ==
  LET n == IF Len(s1) >= Len(s2) THEN Len(s1) ELSE Len(s2)
  IN  \A i \in 1..n :
        \/ aligned_shape(s1, n)[i] = aligned_shape(s2, n)[i]
        \/ aligned_shape(s1, n)[i] = 1
        \/ aligned_shape(s2, n)[i] = 1

broadcast_shape(s1, s2) ==
  LET n == IF Len(s1) >= Len(s2) THEN Len(s1) ELSE Len(s2)
  IN  [i \in 1..n |->
         IF aligned_shape(s1, n)[i] >= aligned_shape(s2, n)[i]
           THEN aligned_shape(s1, n)[i] ELSE aligned_shape(s2, n)[i]]

\* the element of arr seen at position p of a broadcast result
broadcast_at(arr, p) ==
  LET k == Len(p) - Len(arr.shape)
  IN  arr.data[[i \in 1..Len(arr.shape) |->
                  IF arr.shape[i] = 1 THEN 0 ELSE p[i + k]]]

\* np.sum(np.logical_and(a == x, b == y))
count_and(a, x, b, y) ==
  Cardinality({p \in Indices(broadcast_shape(a.shape, b.shape)) :
                 broadcast_at(a, p) = x /\ broadcast_at(b, p) = y})

cm_tp(pred, lab) == count_and(pred, 1, lab, 1)

cm_tn_swapped(pred, lab) == count_and(pred, 0, lab, 1)

cm_tn(pred, lab) == count_and(pred, 0, lab, 0)

cm_fp_swapped(pred, lab) == count_and(pred, 1, lab, 1)

cm_fp(pred, lab) == count_and(pred, 1, lab, 0)

cm_fn(pred, lab) == count_and(pred, 0, lab, 1)

ConfusionMatrix(pred, lab) ==
  [tp |-> cm_tp(pred, lab), tn |-> cm_tn(pred, lab),
   fp |-> cm_fp(pred, lab), fn |-> cm_fn(pred, lab),
   n  |-> size(pred)]

(***************************************************************************)
(* Distances: the neighbour-code-to-normals table (units of 1/8).          *)
(***************************************************************************)
neighbour_code_to_normals ==
  <<
    <<<<0, 0, 0>>>>,
    <<<<1, 1, 1>>>>,
    <<<<-1, -1, 1>>>>,
    <<<<-2, -2, 0>>, <<2, 2, 0>>>>,
    <<<<1, -1, 1>>>>,
    <<<<-2, 0, -2>>, <<2, 0, 2>>>>,
    <<<<1, -1, 1>>, <<-1, -1, 1>>>>,
    <<<<4, 0, 0>>, <<2, 2, 2>>, <<1, 1, 1>>>>,
    <<<<-1, 1, 1>>>>,
    <<<<1, 1, 1>>, <<-1, 1, 1>>>>,
    <<<<-2, 0, 2>>, <<-2, 0, 2>>>>,
    <<<<4, 0, 0>>, <<-2, -2, 2>>, <<-1, -1, 1>>>>,
    <<<<2, -2, 0>>, <<2, -2, 0>>>>,
    <<<<4, 0, 0>>, <<2, -2, 2>>, <<-1, 1, -1>>>>,
    <<<<-4, 0, 0>>, <<-2, 2, 2>>, <<-1, 1, 1>>>>,
    <<<<4, 0, 0>>, <<4, 0, 0>>>>,
    <<<<1, -1, -1>>>>,
    <<<<0, -2, -2>>, <<0, 2, 2>>>>,
    <<<<-1, -1, 1>>, <<1, -1, -1>>>>,
    <<<<0, -4, 0>>, <<2, 2, 2>>, <<1, 1, 1>>>>,
    <<<<1, -1, 1>>, <<1, -1, -1>>>>,
    <<<<0, 0, -4>>, <<2, 2, 2>>, <<-1, -1, -1>>>>,
    <<<<-1, -1, 1>>, <<1, -1, 1>>, <<1, -1, -1>>>>,
    <<<<-1, -1, -1>>, <<-2, -2, -2>>, <<2, 2, 2>>, <<1, 1, 1>>>>,
    <<<<-1, 1, 1>>, <<1, -1, -1>>>>,
    <<<<0, -2, -2>>, <<0, 2, 2>>, <<-1, 1, 1>>>>,
    <<<<-2, 0, 2>>, <<-2, 0, 2>>, <<1, -1, -1>>>>,
    <<<<1, 1, 1>>, <<3, 3, 3>>, <<0, -2, 2>>, <<-2, 0, 2>>>>,
    <<<<1, -1, -1>>, <<2, -2, 0>>, <<2, -2, 0>>>>,
    <<<<3, 3, 3>>, <<0, 2, -2>>, <<-1, -1, -1>>, <<-2, 2, 0>>>>,
    <<<<-4, 0, 0>>, <<-1, -1, -1>>, <<-2, -2, -2>>, <<1, 1, 1>>>>,
    <<<<-4, 0, 0>>, <<-1, -1, -1>>, <<-2, -2, -2>>>>,
    <<<<1, -1, 1>>>>,
    <<<<1, 1, 1>>, <<1, -1, 1>>>>,
    <<<<0, -2, 2>>, <<0, 2, -2>>>>,
    <<<<0, -4, 0>>, <<1, 1, -1>>, <<2, 2, -2>>>>,
    <<<<1, -1, 1>>, <<1, -1, 1>>>>,
    <<<<1, -1, 1>>, <<-2, 0, -2>>, <<2, 0, 2>>>>,
    <<<<0, -2, 2>>, <<0, 2, -2>>, <<1, -1, 1>>>>,
    <<<<-3, -3, 3>>, <<0, 2, 2>>, <<1, 1, -1>>, <<-2, 0, -2>>>>,
    <<<<-1, 1, 1>>, <<1, -1, 1>>>>,
    <<<<1, 1, 1>>, <<1, -1, 1>>, <<-1, 1, 1>>>>,
    <<<<0, 0, 4>>, <<-2, -2, 2>>, <<-1, -1, 1>>>>,
    <<<<2, 2, -2>>, <<2, 2, -2>>, <<1, 1, -1>>, <<-1, -1, 1>>>>,
    <<<<1, -1, 1>>, <<2, -2, 0>>, <<2, -2, 0>>>>,
    <<<<4, 0, 0>>, <<2, -2, 2>>, <<-1, 1, -1>>, <<1, -1, 1>>>>,
    <<<<0, 2, -2>>, <<3, -3, -3>>, <<-1, 1, 1>>, <<2, 2, 0>>>>,
    <<<<-4, 0, 0>>, <<-2, -2, 2>>, <<-1, -1, 1>>>>,
    <<<<2, -2, 0>>, <<-2, 2, 0>>>>,
    <<<<0, 4, 0>>, <<-2, 2, 2>>, <<1, -1, -1>>>>,
    <<<<0, 4, 0>>, <<1, -1, 1>>, <<-2, 2, -2>>>>,
    <<<<0, 4, 0>>, <<0, -4, 0>>>>,
    <<<<2, -2, 0>>, <<-2, 2, 0>>, <<1, -1, 1>>>>,
    <<<<-3, -3, -3>>, <<-2, 0, 2>>, <<-1, -1, -1>>, <<-2, 2, 0>>>>,
    <<<<1, 1, 1>>, <<0, -4, 0>>, <<-2, -2, -2>>, <<-1, -1, -1>>>>,
    <<<<0, -4, 0>>, <<-2, -2, -2>>, <<-1, -1, -1>>>>,
    <<<<-1, 1, 1>>, <<2, -2, 0>>, <<-2, 2, 0>>>>,
    <<<<0, 4, 0>>, <<2, 2, -2>>, <<-1, -1, 1>>, <<-1, -1, 1>>>>,
    <<<<-3, 3, -3>>, <<-2, -2, 0>>, <<-1, 1, -1>>, <<-2, 0, 2>>>>,
    <<<<0, 4, 0>>, <<2, 2, -2>>, <<-1, -1, 1>>>>,
    <<<<2, -2, 0>>, <<-2, 2, 0>>, <<2, -2, 0>>, <<2, -2, 0>>>>,
    <<<<-2, -2, 0>>, <<-2, -2, 0>>, <<-1, -1, 1>>>>,
    <<<<1, 1, 1>>, <<-2, -2, 0>>, <<-2, -2, 0>>>>,
    <<<<-2, -2, 0>>, <<-2, -2, 0>>>>,
    <<<<-1, -1, 1>>>>,
    <<<<1, 1, 1>>, <<-1, -1, 1>>>>,
    <<<<-1, -1, 1>>, <<-1, -1, 1>>>>,
    <<<<-1, -1, 1>>, <<-2, -2, 0>>, <<2, 2, 0>>>>,
    <<<<0, -2, 2>>, <<0, -2, 2>>>>,
    <<<<0, 0, 4>>, <<2, -2, 2>>, <<1, -1, 1>>>>,
    <<<<0, -2, 2>>, <<0, -2, 2>>, <<-1, -1, 1>>>>,
    <<<<3, -3, 3>>, <<0, -2, -2>>, <<-1, 1, -1>>, <<2, 2, 0>>>>,
    <<<<-1, -1, 1>>, <<-1, 1, 1>>>>,
    <<<<1, 1, 1>>, <<-1, -1, 1>>, <<-1, 1, 1>>>>,
    <<<<-1, -1, 1>>, <<-2, 0, 2>>, <<-2, 0, 2>>>>,
    <<<<4, 0, 0>>, <<-2, -2, 2>>, <<-1, -1, 1>>, <<-1, -1, 1>>>>,
    <<<<0, 4, 0>>, <<-2, 2, -2>>, <<1, -1, 1>>>>,
    <<<<-2, 2, -2>>, <<-2, 2, -2>>, <<-1, 1, -1>>, <<-1, 1, -1>>>>,
    <<<<-2, 0, -2>>, <<3, -3, -3>>, <<0, 2, -2>>, <<-1, 1, 1>>>>,
    <<<<4, 0, 0>>, <<-2, 2, -2>>, <<1, -1, 1>>>>,
    <<<<-2, 0, 2>>, <<2, 0, -2>>>>,
    <<<<0, 0, 4>>, <<-2, 2, 2>>, <<-1, 1, 1>>>>,
    <<<<-1, -1, 1>>, <<-2, 0, 2>>, <<2, 0, -2>>>>,
    <<<<-2, 0, -2>>, <<-3, 3, 3>>, <<-2, -2, 0>>, <<-1, 1, 1>>>>,
    <<<<0, 0, -4>>, <<2, 2, -2>>, <<-1, -1, 1>>>>,
    <<<<0, 0, 4>>, <<0, 0, 4>>>>,
    <<<<1, 1, 1>>, <<1, 1, 1>>, <<2, 2, 2>>, <<0, 0, 4>>>>,
    <<<<1, 1, 1>>, <<2, 2, 2>>, <<0, 0, 4>>>>,
    <<<<-2, 0, 2>>, <<2, 0, -2>>, <<-1, 1, 1>>>>,
    <<<<0, 0, 4>>, <<2, -2, 2>>, <<1, -1, 1>>, <<1, -1, 1>>>>,
    <<<<-2, 0, 2>>, <<-2, 0, 2>>, <<-2, 0, 2>>, <<2, 0, -2>>>>,
    <<<<1, -1, 1>>, <<2, 0, 2>>, <<2, 0, 2>>>>,
    <<<<2, 0, 2>>, <<-3, -3, 3>>, <<-2, 2, 0>>, <<-1, -1, 1>>>>,
    <<<<0, 0, 4>>, <<2, -2, 2>>, <<1, -1, 1>>>>,
    <<<<1, 1, 1>>, <<2, 0, 2>>, <<2, 0, 2>>>>,
    <<<<2, 0, 2>>, <<2, 0, 2>>>>,
    <<<<-1, -1, 1>>, <<1, -1, 1>>>>,
    <<<<1, 1, 1>>, <<-1, -1, 1>>, <<1, -1, 1>>>>,
    <<<<-1, -1, 1>>, <<0, -2, 2>>, <<0, 2, -2>>>>,
    <<<<0, -4, 0>>, <<1, 1, -1>>, <<2, 2, -2>>, <<-1, -1, 1>>>>,
    <<<<0, -2, 2>>, <<0, -2, 2>>, <<1, -1, 1>>>>,
    <<<<0, 0, 4>>, <<2, -2, 2>>, <<1, -1, 1>>, <<1, -1, 1>>>>,
    <<<<0, -2, 2>>, <<0, -2, 2>>, <<0, -2, 2>>, <<0, 2, -2>>>>,
    <<<<0, 2, 2>>, <<0, 2, 2>>, <<1, -1, -1>>>>,
    <<<<-1, 1, 1>>, <<1, -1, 1>>, <<-1, -1, 1>>>>,
    <<<<-1, 1, 1>>, <<1, -1, 1>>, <<-1, -1, 1>>, <<1, 1, 1>>>>,
    <<<<0, 0, 4>>, <<-2, -2, 2>>, <<-1, -1, 1>>, <<-1, -1, 1>>>>,
    <<<<1, 1, 1>>, <<1, -1, 1>>, <<1, -1, -1>>>>,
    <<<<0, 4, 0>>, <<-2, 2, -2>>, <<1, -1, 1>>, <<1, -1, 1>>>>,
    <<<<1, 1, 1>>, <<-1, -1, 1>>, <<1, -1, -1>>>>,
    <<<<0, -2, -2>>, <<0, 2, 2>>, <<1, 1, 1>>>>,
    <<<<1, 1, 1>>, <<1, -1, -1>>>>,
    <<<<4, 0, 0>>, <<2, -2, -2>>, <<1, -1, -1>>>>,
    <<<<-2, 2, 2>>, <<-1, 1, 1>>, <<-2, 2, 2>>, <<1, -1, -1>>>>,
    <<<<3, -3, 3>>, <<0, 2, 2>>, <<-1, 1, -1>>, <<-2, 0, 2>>>>,
    <<<<0, -4, 0>>, <<-2, 2, 2>>, <<-1, 1, 1>>>>,
    <<<<-3, -3, 3>>, <<2, -2, 0>>, <<0, 2, 2>>, <<-1, -1, 1>>>>,
    <<<<-1, 1, 1>>, <<-2, 2, 2>>, <<0, 0, 4>>>>,
    <<<<1, 1, 1>>, <<0, 2, 2>>, <<0, 2, 2>>>>,
    <<<<0, 2, 2>>, <<0, 2, 2>>>>,
    <<<<4, 0, 0>>, <<2, 2, 2>>, <<1, 1, 1>>, <<1, 1, 1>>>>,
    <<<<1, -1, 1>>, <<-1, -1, 1>>, <<1, 1, 1>>>>,
    <<<<-2, 0, -2>>, <<2, 0, 2>>, <<1, 1, 1>>>>,
    <<<<1, 1, 1>>, <<1, -1, 1>>>>,
    <<<<-2, -2, 0>>, <<2, 2, 0>>, <<1, 1, 1>>>>,
    <<<<1, 1, 1>>, <<-1, -1, 1>>>>,
    <<<<1, 1, 1>>, <<1, 1, 1>>>>,
    <<<<1, 1, 1>>>>,
    <<<<1, 1, 1>>>>,
    <<<<1, 1, 1>>, <<1, 1, 1>>>>,
    <<<<1, 1, 1>>, <<-1, -1, 1>>>>,
    <<<<-2, -2, 0>>, <<2, 2, 0>>, <<1, 1, 1>>>>,
    <<<<1, 1, 1>>, <<1, -1, 1>>>>,
    <<<<-2, 0, -2>>, <<2, 0, 2>>, <<1, 1, 1>>>>,
    <<<<1, -1, 1>>, <<-1, -1, 1>>, <<1, 1, 1>>>>,
    <<<<4, 0, 0>>, <<2, 2, 2>>, <<1, 1, 1>>, <<1, 1, 1>>>>,
    <<<<0, 2, 2>>, <<0, 2, 2>>>>,
    <<<<1, 1, 1>>, <<0, 2, 2>>, <<0, 2, 2>>>>,
    <<<<-1, 1, 1>>, <<-2, 2, 2>>, <<0, 0, 4>>>>,
    <<<<-3, -3, 3>>, <<2, -2, 0>>, <<0, 2, 2>>, <<-1, -1, 1>>>>,
    <<<<0, -4, 0>>, <<-2, 2, 2>>, <<-1, 1, 1>>>>,
    <<<<3, -3, 3>>, <<0, 2, 2>>, <<-1, 1, -1>>, <<-2, 0, 2>>>>,
    <<<<-2, 2, 2>>, <<-1, 1, 1>>, <<-2, 2, 2>>, <<1, -1, -1>>>>,
    <<<<4, 0, 0>>, <<2, -2, -2>>, <<1, -1, -1>>>>,
    <<<<1, 1, 1>>, <<1, -1, -1>>>>,
    <<<<0, -2, -2>>, <<0, 2, 2>>, <<1, 1, 1>>>>,
    <<<<1, 1, 1>>, <<-1, -1, 1>>, <<1, -1, -1>>>>,
    <<<<0, 4, 0>>, <<-2, 2, -2>>, <<1, -1, 1>>, <<1, -1, 1>>>>,
    <<<<1, 1, 1>>, <<1, -1, 1>>, <<1, -1, -1>>>>,
    <<<<0, 0, 4>>, <<-2, -2, 2>>, <<-1, -1, 1>>, <<-1, -1, 1>>>>,
    <<<<-1, 1, 1>>, <<1, -1, 1>>, <<-1, -1, 1>>, <<1, 1, 1>>>>,
    <<<<-1, 1, 1>>, <<1, -1, 1>>, <<-1, -1, 1>>>>,
    <<<<0, 2, 2>>, <<0, 2, 2>>, <<1, -1, -1>>>>,
    <<<<0, -2, -2>>, <<0, 2, 2>>, <<0, 2, 2>>, <<0, 2, 2>>>>,
    <<<<0, 0, 4>>, <<2, -2, 2>>, <<1, -1, 1>>, <<1, -1, 1>>>>,
    <<<<0, -2, 2>>, <<0, -2, 2>>, <<1, -1, 1>>>>,
    <<<<0, -4, 0>>, <<1, 1, -1>>, <<2, 2, -2>>, <<-1, -1, 1>>>>,
    <<<<-1, -1, 1>>, <<0, -2, 2>>, <<0, 2, -2>>>>,
    <<<<1, 1, 1>>, <<-1, -1, 1>>, <<1, -1, 1>>>>,
    <<<<-1, -1, 1>>, <<1, -1, 1>>>>,
    <<<<2, 0, 2>>, <<2, 0, 2>>>>,
    <<<<1, 1, 1>>, <<2, 0, 2>>, <<2, 0, 2>>>>,
    <<<<0, 0, 4>>, <<2, -2, 2>>, <<1, -1, 1>>>>,
    <<<<2, 0, 2>>, <<-3, -3, 3>>, <<-2, 2, 0>>, <<-1, -1, 1>>>>,
    <<<<1, -1, 1>>, <<2, 0, 2>>, <<2, 0, 2>>>>,
    <<<<-2, 0, -2>>, <<2, 0, 2>>, <<2, 0, 2>>, <<2, 0, 2>>>>,
    <<<<0, 0, 4>>, <<2, -2, 2>>, <<1, -1, 1>>, <<1, -1, 1>>>>,
    <<<<-2, 0, 2>>, <<2, 0, -2>>, <<-1, 1, 1>>>>,
    <<<<1, 1, 1>>, <<2, 2, 2>>, <<0, 0, 4>>>>,
    <<<<1, 1, 1>>, <<1, 1, 1>>, <<2, 2, 2>>, <<0, 0, 4>>>>,
    <<<<0, 0, 4>>, <<0, 0, 4>>>>,
    <<<<0, 0, -4>>, <<2, 2, -2>>, <<-1, -1, 1>>>>,
    <<<<-2, 0, -2>>, <<-3, 3, 3>>, <<-2, -2, 0>>, <<-1, 1, 1>>>>,
    <<<<-1, -1, 1>>, <<-2, 0, 2>>, <<2, 0, -2>>>>,
    <<<<0, 0, 4>>, <<-2, 2, 2>>, <<-1, 1, 1>>>>,
    <<<<-2, 0, 2>>, <<2, 0, -2>>>>,
    <<<<4, 0, 0>>, <<-2, 2, -2>>, <<1, -1, 1>>>>,
    <<<<-2, 0, -2>>, <<3, -3, -3>>, <<0, 2, -2>>, <<-1, 1, 1>>>>,
    <<<<-2, 2, -2>>, <<-2, 2, -2>>, <<-1, 1, -1>>, <<-1, 1, -1>>>>,
    <<<<0, 4, 0>>, <<-2, 2, -2>>, <<1, -1, 1>>>>,
    <<<<4, 0, 0>>, <<-2, -2, 2>>, <<-1, -1, 1>>, <<-1, -1, 1>>>>,
    <<<<-1, -1, 1>>, <<-2, 0, 2>>, <<-2, 0, 2>>>>,
    <<<<1, 1, 1>>, <<-1, -1, 1>>, <<-1, 1, 1>>>>,
    <<<<-1, -1, 1>>, <<-1, 1, 1>>>>,
    <<<<3, -3, 3>>, <<0, -2, -2>>, <<-1, 1, -1>>, <<2, 2, 0>>>>,
    <<<<0, -2, 2>>, <<0, -2, 2>>, <<-1, -1, 1>>>>,
    <<<<0, 0, 4>>, <<2, -2, 2>>, <<1, -1, 1>>>>,
    <<<<0, -2, 2>>, <<0, -2, 2>>>>,
    <<<<-1, -1, 1>>, <<-2, -2, 0>>, <<2, 2, 0>>>>,
    <<<<-1, -1, 1>>, <<-1, -1, 1>>>>,
    <<<<1, 1, 1>>, <<-1, -1, 1>>>>,
    <<<<-1, -1, 1>>>>,
    <<<<-2, -2, 0>>, <<-2, -2, 0>>>>,
    <<<<1, 1, 1>>, <<-2, -2, 0>>, <<-2, -2, 0>>>>,
    <<<<-2, -2, 0>>, <<-2, -2, 0>>, <<-1, -1, 1>>>>,
    <<<<-2, -2, 0>>, <<-2, -2, 0>>, <<-2, -2, 0>>, <<2, 2, 0>>>>,
    <<<<0, 4, 0>>, <<2, 2, -2>>, <<-1, -1, 1>>>>,
    <<<<-3, 3, -3>>, <<-2, -2, 0>>, <<-1, 1, -1>>, <<-2, 0, 2>>>>,
    <<<<0, 4, 0>>, <<2, 2, -2>>, <<-1, -1, 1>>, <<-1, -1, 1>>>>,
    <<<<-1, 1, 1>>, <<2, -2, 0>>, <<-2, 2, 0>>>>,
    <<<<0, -4, 0>>, <<-2, -2, -2>>, <<-1, -1, -1>>>>,
    <<<<1, 1, 1>>, <<0, -4, 0>>, <<-2, -2, -2>>, <<-1, -1, -1>>>>,
    <<<<-3, -3, -3>>, <<-2, 0, 2>>, <<-1, -1, -1>>, <<-2, 2, 0>>>>,
    <<<<2, -2, 0>>, <<-2, 2, 0>>, <<1, -1, 1>>>>,
    <<<<0, 4, 0>>, <<0, -4, 0>>>>,
    <<<<0, 4, 0>>, <<1, -1, 1>>, <<-2, 2, -2>>>>,
    <<<<0, 4, 0>>, <<-2, 2, 2>>, <<1, -1, -1>>>>,
    <<<<2, -2, 0>>, <<-2, 2, 0>>>>,
    <<<<-4, 0, 0>>, <<-2, -2, 2>>, <<-1, -1, 1>>>>,
    <<<<0, 2, -2>>, <<3, -3, -3>>, <<-1, 1, 1>>, <<2, 2, 0>>>>,
    <<<<4, 0, 0>>, <<2, -2, 2>>, <<-1, 1, -1>>, <<1, -1, 1>>>>,
    <<<<1, -1, 1>>, <<2, -2, 0>>, <<2, -2, 0>>>>,
    <<<<2, 2, -2>>, <<2, 2, -2>>, <<1, 1, -1>>, <<-1, -1, 1>>>>,
    <<<<0, 0, 4>>, <<-2, -2, 2>>, <<-1, -1, 1>>>>,
    <<<<1, 1, 1>>, <<1, -1, 1>>, <<-1, 1, 1>>>>,
    <<<<-1, 1, 1>>, <<1, -1, 1>>>>,
    <<<<-3, -3, 3>>, <<0, 2, 2>>, <<1, 1, -1>>, <<-2, 0, -2>>>>,
    <<<<0, -2, 2>>, <<0, 2, -2>>, <<1, -1, 1>>>>,
    <<<<1, -1, 1>>, <<-2, 0, -2>>, <<2, 0, 2>>>>,
    <<<<1, -1, 1>>, <<1, -1, 1>>>>,
    <<<<0, -4, 0>>, <<1, 1, -1>>, <<2, 2, -2>>>>,
    <<<<0, -2, 2>>, <<0, 2, -2>>>>,
    <<<<1, 1, 1>>, <<1, -1, 1>>>>,
    <<<<1, -1, 1>>>>,
    <<<<-4, 0, 0>>, <<-1, -1, -1>>, <<-2, -2, -2>>>>,
    <<<<-4, 0, 0>>, <<-1, -1, -1>>, <<-2, -2, -2>>, <<1, 1, 1>>>>,
    <<<<3, 3, 3>>, <<0, 2, -2>>, <<-1, -1, -1>>, <<-2, 2, 0>>>>,
    <<<<1, -1, -1>>, <<2, -2, 0>>, <<2, -2, 0>>>>,
    <<<<1, 1, 1>>, <<3, 3, 3>>, <<0, -2, 2>>, <<-2, 0, 2>>>>,
    <<<<-2, 0, 2>>, <<-2, 0, 2>>, <<1, -1, -1>>>>,
    <<<<0, -2, -2>>, <<0, 2, 2>>, <<-1, 1, 1>>>>,
    <<<<-1, 1, 1>>, <<1, -1, -1>>>>,
    <<<<-1, -1, -1>>, <<-2, -2, -2>>, <<2, 2, 2>>, <<1, 1, 1>>>>,
    <<<<-1, -1, 1>>, <<1, -1, 1>>, <<1, -1, -1>>>>,
    <<<<0, 0, -4>>, <<2, 2, 2>>, <<-1, -1, -1>>>>,
    <<<<1, -1, 1>>, <<1, -1, -1>>>>,
    <<<<0, -4, 0>>, <<2, 2, 2>>, <<1, 1, 1>>>>,
    <<<<-1, -1, 1>>, <<1, -1, -1>>>>,
    <<<<0, -2, -2>>, <<0, 2, 2>>>>,
    <<<<1, -1, -1>>>>,
    <<<<4, 0, 0>>, <<4, 0, 0>>>>,
    <<<<-4, 0, 0>>, <<-2, 2, 2>>, <<-1, 1, 1>>>>,
    <<<<4, 0, 0>>, <<2, -2, 2>>, <<-1, 1, -1>>>>,
    <<<<2, -2, 0>>, <<2, -2, 0>>>>,
    <<<<4, 0, 0>>, <<-2, -2, 2>>, <<-1, -1, 1>>>>,
    <<<<-2, 0, 2>>, <<-2, 0, 2>>>>,
    <<<<1, 1, 1>>, <<-1, 1, 1>>>>,
    <<<<-1, 1, 1>>>>,
    <<<<4, 0, 0>>, <<2, 2, 2>>, <<1, 1, 1>>>>,
    <<<<1, -1, 1>>, <<-1, -1, 1>>>>,
    <<<<-2, 0, -2>>, <<2, 0, 2>>>>,
    <<<<1, -1, 1>>>>,
    <<<<-2, -2, 0>>, <<2, 2, 0>>>>,
    <<<<-1, -1, 1>>>>,
    <<<<1, 1, 1>>>>,
    <<<<0, 0, 0>>>>
  >>

(***************************************************************************)
(* Distances._calculate: promotion of 2-D inputs.                          *)
(***************************************************************************)
\* np.expand_dims(arr, -1)
expand_dims(arr) ==
  [shape |-> Append(arr.shape, 1),
   data  |-> [p \in Indices(Append(arr.shape, 1)) |-> arr.data[<<p[1], p[2]>>]]]

promote_spacing_leading(sp) == <<1>> \o sp

\* spacing + (1., )
promote_spacing(sp) == Append(sp, 1)

(***************************************************************************)
(* Distances._calculate: the surface area of each neighbour code.          *)
(***************************************************************************)
\* the largest r in lo..hi with r * r <= x
RECURSIVE isqrt_search(_, _, _)
isqrt_search(x, lo, hi) ==
  IF lo = hi THEN lo
  ELSE LET mid == (lo + hi + 1) \div 2
       IN  IF mid * mid <= x THEN isqrt_search(x, mid, hi)
                             ELSE isqrt_search(x, lo, mid - 1)

\* np.linalg.norm(v) in fixed point: floor(AreaScale * sqrt(v . v))
linalg_norm(v) ==
  isqrt_search((v[1] * v[1] + v[2] * v[2] + v[3] * v[3]) * AreaScale * AreaScale,
               0, 46340)

surface_area_off_by_one(code, sp) ==
  LET normals == neighbour_code_to_normals[IF code = 0 THEN 1 ELSE code]
      area(normal_idx) ==
        linalg_norm(<< normals[normal_idx][1] * sp[2] * sp[3],
                       normals[normal_idx][2] * sp[1] * sp[3],
                       normals[normal_idx][3] * sp[1] * sp[2] >>)
  IN  SumSeq([normal_idx \in 1..Len(normals) |-> area(normal_idx)])

surface_area(code, sp) ==
  LET normals == neighbour_code_to_normals[code + 1]
      area(normal_idx) ==
        linalg_norm(<< normals[normal_idx][1] * sp[2] * sp[3],
                       normals[normal_idx][2] * sp[1] * sp[3],
                       normals[normal_idx][3] * sp[1] * sp[2] >>)
  IN  SumSeq([normal_idx \in 1..Len(normals) |-> area(normal_idx)])

neighbour_code_to_surface_area(sp) ==
  [code \in 0..255 |-> surface_area(code, sp)]

(***************************************************************************)
(* Distances._calculate: bounding box and crop.                            *)
(***************************************************************************)
\* ground_truth_arr | segmentation_arr
mask_all(gt, seg) ==
  [p \in Indices(gt.shape) |->
     IF gt.data[p] # 0 \/ seg.data[p] # 0 THEN 1 ELSE 0]

\* np.nonzero of the max projection of mask to one axis (axis in 1..3)
idx_nonzero(mask, axis) ==
  {p[axis] : p \in {q \in DOMAIN mask : mask[q] # 0}}

\* the same, the part read from the origin of arr: arr[0 : bbox_max - bbox_min + 1]
crop_from_origin(arr, bbox_min, bbox_max) ==
  LET shp == << bbox_max[1] - bbox_min[1] + 2,
                bbox_max[2] - bbox_min[2] + 2,
                bbox_max[3] - bbox_min[3] + 2 >>
  IN  [shape |-> shp,
       data  |-> [p \in Indices(shp) |->
                    IF \A i \in 1..3 : p[i] < shp[i] - 1
                      THEN arr.data[p]
                      ELSE 0]]

\* a zero array of shape (bbox_max - bbox_min) + 2 whose [0:-1, 0:-1, 0:-1]
\* part holds arr[bbox_min : bbox_max + 1]
crop(arr, bbox_min, bbox_max) ==
  LET shp == << bbox_max[1] - bbox_min[1] + 2,
                bbox_max[2] - bbox_min[2] + 2,
                bbox_max[3] - bbox_min[3] + 2 >>
  IN  [shape |-> shp,
       data  |-> [p \in Indices(shp) |->
                    IF \A i \in 1..3 : p[i] < shp[i] - 1
                      THEN arr.data[<< p[1] + bbox_min[1], p[2] + bbox_min[2],
                                       p[3] + bbox_min[3] >>]
                      ELSE 0]]

cropmask_gt_from_pred(gt, seg, bbox_min, bbox_max) == crop(seg, bbox_min, bbox_max)

cropmask_gt(gt, seg, bbox_min, bbox_max) == crop(gt, bbox_min, bbox_max)

cropmask_pred_short(gt, seg, bbox_min, bbox_max) ==
  LET c == crop(seg, bbox_min, bbox_max)
  IN  [shape |-> c.shape,
       data  |-> [p \in Indices(c.shape) |->
                    IF p[1] < c.shape[1] - 2 THEN c.data[p] ELSE 0]]

cropmask_pred(gt, seg, bbox_min, bbox_max) == crop(seg, bbox_min, bbox_max)

(***************************************************************************)
(* Distances._calculate: neighbour codes and surface voxels.               *)
(***************************************************************************)
kernel == << << <<128, 64>>, <<32, 16>> >>, << <<8, 4>>, <<2, 1>> >> >>

\* input[p], the constant 0 outside of the array (mode="constant", cval=0)
at(input, p) ==
  IF /\ 0 <= p[1] /\ p[1] < input.shape[1]
     /\ 0 <= p[2] /\ p[2] < input.shape[2]
     /\ 0 <= p[3] /\ p[3] < input.shape[3]
    THEN input.data[p] ELSE 0

\* the convolution with the kernel: kernel element d applied to input[p - d]
correlate_as_convolve(input) ==
  [p \in Indices(input.shape) |->
     ( kernel[2][2][2] * at(input, <<p[1] - 1, p[2] - 1, p[3] - 1>>)
     + kernel[2][2][1] * at(input, <<p[1] - 1, p[2] - 1, p[3]>>)
     + kernel[2][1][2] * at(input, <<p[1] - 1, p[2], p[3] - 1>>)
     + kernel[2][1][1] * at(input, <<p[1] - 1, p[2], p[3]>>)
     + kernel[1][2][2] * at(input, <<p[1], p[2] - 1, p[3] - 1>>)
     + kernel[1][2][1] * at(input, <<p[1], p[2] - 1, p[3]>>)
     + kernel[1][1][2] * at(input, <<p[1], p[2], p[3] - 1>>)
     + kernel[1][1][1] * at(input, <<p[1], p[2], p[3]>>) ) % 256]

\* ndimage.filters.correlate(input, kernel, mode="constant", cval=0) for the
\* 2x2x2 kernel: kernel element d is applied to input[p + d - 1]; the
\* result has the dtype of the input, uint8.
correlate(input) ==
  [p \in Indices(input.shape) |->
     ( kernel[1][1][1] * at(input, <<p[1] - 1, p[2] - 1, p[3] - 1>>)
     + kernel[1][1][2] * at(input, <<p[1] - 1, p[2] - 1, p[3]>>)
     + kernel[1][2][1] * at(input, <<p[1] - 1, p[2], p[3] - 1>>)
     + kernel[1][2][2] * at(input, <<p[1] - 1, p[2], p[3]>>)
     + kernel[2][1][1] * at(input, <<p[1], p[2] - 1, p[3] - 1>>)
     + kernel[2][1][2] * at(input, <<p[1], p[2] - 1, p[3]>>)
     + kernel[2][2][1] * at(input, <<p[1], p[2], p[3] - 1>>)
     + kernel[2][2][2] * at(input, <<p[1], p[2], p[3]>>) ) % 256]

\* (neighbour_code_map != 0) & (neighbour_code_map != 255)
borders(neighbour_code_map) ==
  [p \in DOMAIN neighbour_code_map |->
     neighbour_code_map[p] # 0 /\ neighbour_code_map[p] # 255]

(***************************************************************************)
(* Distances._calculate: distance transform.                               *)
(***************************************************************************)
dist_sq_unscaled(p, q, sp) ==
  (p[1] - q[1]) * (p[1] - q[1]) + (p[2] - q[2]) * (p[2] - q[2])
    + (p[3] - q[3]) * (p[3] - q[3])

\* the squared physical distance of two grid positions (sampling=spacing)
dist_sq(p, q, sp) ==
  (sp[1] * (p[1] - q[1])) * (sp[1] * (p[1] - q[1]))
    + (sp[2] * (p[2] - q[2])) * (sp[2] * (p[2] - q[2]))
    + (sp[3] * (p[3] - q[3])) * (sp[3] * (p[3] - q[3]))

\* ndimage.morphology.distance_transform_edt(input, sampling=sp): for each
\* position the distance to the nearest False position of input
distance_transform_edt(input, sp) ==
  LET background == {q \in DOMAIN input : ~input[q]}
  IN  [p \in DOMAIN input |-> MinOf({dist_sq(p, q, sp) : q \in background})]

distmap_zero_if_no_border(brd, sp) ==
  IF \E p \in DOMAIN brd : brd[p]
    THEN distance_transform_edt([p \in DOMAIN brd |-> ~brd[p]], sp)
    ELSE [p \in DOMAIN brd |-> 0]

distmap(brd, sp) ==
  IF \E p \in DOMAIN brd : brd[p]
    THEN distance_transform_edt([p \in DOMAIN brd |-> ~brd[p]], sp)
    ELSE [p \in DOMAIN brd |-> Inf]

(***************************************************************************)
(* Distances._calculate: the sorted surface elements.                      *)
(***************************************************************************)
zip(a, b) == [i \in 1..Len(a) |-> <<a[i], b[i]>>]

\* the order of the distances alone
tuple_leq_by_distance(a, b) == LeqDist(a[1], b[1])

\* the order of Python tuples (distance, area)
tuple_leq(a, b) == IF a[1] = b[1] THEN a[2] <= b[2] ELSE LeqDist(a[1], b[1])

RECURSIVE insort(_, _)
insort(x, s) ==
  IF s = <<>> THEN <<x>>
  ELSE IF tuple_leq(x, Head(s)) THEN <<x>> \o s
       ELSE <<Head(s)>> \o insort(x, Tail(s))

RECURSIVE sorted(_)
sorted(s) == IF s = <<>> THEN <<>> ELSE insort(Head(s), sorted(Tail(s)))

\* column c of the array sorted along axis 0, each column on its own
column_sorted(s, c) ==
  LET t == sorted([i \in 1..Len(s) |-> <<s[i][c], 0>>])
  IN  [i \in 1..Len(s) |-> t[i][1]]

\* sorted_surfels[:, c]
column(s, c) == [i \in 1..Len(s) |-> s[i][c]]

(***************************************************************************)
(* Distances._calculate.  The result is the value of the four attributes   *)
(* when the method returns; __init__ has set them to None before the call. *)
(***************************************************************************)
calculate(segmentation_arr, ground_truth_arr, spacing_arg) ==
  LET promote == ndim(segmentation_arr) = 2 /\ ndim(ground_truth_arr) = 2
                   /\ Len(spacing_arg) = 2
      seg == IF promote THEN expand_dims(segmentation_arr) ELSE segmentation_arr
      gt  == IF promote THEN expand_dims(ground_truth_arr) ELSE ground_truth_arr
      sp  == IF promote THEN promote_spacing(spacing_arg) ELSE spacing_arg
      area_table == neighbour_code_to_surface_area(sp)
      union == np_array(mask_all(gt, seg))
      idx_nonzero_0 == idx_nonzero(union, 1)
      idx_nonzero_1 == idx_nonzero(union, 2)
      idx_nonzero_2 == idx_nonzero(union, 3)
  IN  IF idx_nonzero_0 = {}
        THEN \* the returned dictionary is dropped by __init__
             [distances_gt_to_pred |-> None, distances_pred_to_gt |-> None,
              surfel_areas_gt |-> None, surfel_areas_pred |-> None]
        ELSE
          LET bbox_min == << MinOf(idx_nonzero_0), MinOf(idx_nonzero_1),
                             MinOf(idx_nonzero_2) >>
              bbox_max == << MaxOf(idx_nonzero_0), MaxOf(idx_nonzero_1),
                             MaxOf(idx_nonzero_2) >>
              crop_gt   == cropmask_gt(gt, seg, bbox_min, bbox_max)
              crop_pred == cropmask_pred(gt, seg, bbox_min, bbox_max)
              neighbour_code_map_gt   == np_array(correlate(crop_gt))
              neighbour_code_map_pred == np_array(correlate(crop_pred))
              borders_gt   == np_array(borders(neighbour_code_map_gt))
              borders_pred == np_array(borders(neighbour_code_map_pred))
              distmap_gt   == distmap(borders_gt, sp)
              distmap_pred == distmap(borders_pred, sp)
              surface_area_map_gt ==
                [p \in DOMAIN neighbour_code_map_gt |->
                   area_table[neighbour_code_map_gt[p]]]
              surface_area_map_pred ==
                [p \in DOMAIN neighbour_code_map_pred |->
                   area_table[neighbour_code_map_pred[p]]]
              at_borders_gt   == true_positions(borders_gt, crop_gt.shape)
              at_borders_pred == true_positions(borders_pred, crop_pred.shape)
              d_gt_to_pred == boolean_index(distmap_pred, at_borders_gt)
              d_pred_to_gt == boolean_index(distmap_gt, at_borders_pred)
              a_gt   == boolean_index(surface_area_map_gt, at_borders_gt)
              a_pred == boolean_index(surface_area_map_pred, at_borders_pred)
              sorted_surfels_gt   == sorted(zip(d_gt_to_pred, a_gt))
              sorted_surfels_pred == sorted(zip(d_pred_to_gt, a_pred))
          IN  [distances_gt_to_pred |->
                 Some(IF d_gt_to_pred # <<>> THEN column(sorted_surfels_gt, 1)
                                             ELSE d_gt_to_pred),
               surfel_areas_gt |->
                 Some(IF d_gt_to_pred # <<>> THEN column(sorted_surfels_gt, 2)
                                             ELSE a_gt),
               distances_pred_to_gt |->
                 Some(IF d_pred_to_gt # <<>> THEN column(sorted_surfels_pred, 1)
                                             ELSE d_pred_to_gt),
               surfel_areas_pred |->
                 Some(IF d_pred_to_gt # <<>> THEN column(sorted_surfels_pred, 2)
                                             ELSE a_pred)]

(***************************************************************************)
(* Inputs.                                                                 *)
(***************************************************************************)
Array(shape, foreground, value) ==
  [shape |-> shape,
   data  |-> [p \in Indices(shape) |-> IF p \in foreground THEN value ELSE 0]]

\* the masks of a shape with at most MaxFg foreground voxels, and the
\* all-foreground mask
SparseMasks(shape) ==
  {Array(shape, F, 1) :
     F \in {G \in SUBSET Indices(shape) :
              Cardinality(G) <= MaxFg \/ G = Indices(shape)}}

\* 5x5x5 masks: all background, the centre voxel, a neighbour of the centre
ScenarioMasks ==
  {Array(<<5, 5, 5>>, F, 1) : F \in {{}, {<<2, 2, 2>>}, {<<3, 2, 2>>}}}

Spacings3 == {<<1, 1, 1>>, <<2, 1, 3>>}

ScenarioSpacings == {<<1, 1, 1>>, <<2, 1, 1>>}

Spacings2 == {<<1, 1>>, <<2, 1>>, <<1, 3>>}

DistancesInputs ==
  {[prediction |-> m[1], label |-> m[2], spacing |-> s] :
     m \in SparseMasks(<<2, 2, 2>>) \X SparseMasks(<<2, 2, 2>>), s \in Spacings3}
  \cup
  {[prediction |-> m[1], label |-> m[2], spacing |-> s] :
     m \in ScenarioMasks \X ScenarioMasks, s \in ScenarioSpacings}
  \cup
  {[prediction |-> m[1], label |-> m[2], spacing |-> s] :
     m \in SparseMasks(<<3, 2>>) \X SparseMasks(<<3, 2>>), s \in Spacings2}

\* label volumes: every volume of shape (2, 1, 2) over 0..MaxLabel, and the
\* 4x4x4 volumes that are constant or have one voxel of label 1
LabelVolumes ==
  {[shape |-> <<2, 1, 2>>, data |-> d] :
     d \in [Indices(<<2, 1, 2>>) -> 0..MaxLabel]}
  \cup {Array(<<4, 4, 4>>, Indices(<<4, 4, 4>>), v) : v \in 0..MaxLabel}
  \cup {Array(<<4, 4, 4>>, {p}, 1) : p \in Indices(<<4, 4, 4>>)}

ConfusionMatrixInputs ==
  {[prediction |-> m[1], label |-> m[2]] :
     m \in {x \in LabelVolumes \X LabelVolumes : x[1].shape = x[2].shape}}

(***************************************************************************)
(* The state machines.                                                     *)
(***************************************************************************)
\* no VoxelWiseIndexing has been built
NoIndexing ==
  /\ image_dimension = 0
  /\ self_shape = None
  /\ self_indexing = None
  /\ shape_arg = None
  /\ returned = None
  /\ calls = 0
  /\ computations = 0

Unset ==
  /\ confusion_matrix = None
  /\ distances_gt_to_pred = None
  /\ distances_pred_to_gt = None
  /\ surfel_areas_gt = None
  /\ surfel_areas_pred = None
  /\ NoIndexing

\* a prediction, a label and a spacing are at hand; no Distances yet
Init ==
  /\ \E in \in DistancesInputs :
       /\ prediction = in.prediction
       /\ label = in.label
       /\ spacing = in.spacing
  /\ pc = "start"
  /\ Unset

\* Distances(prediction, label, spacing)
Distances_init ==
  /\ pc = "start"
  /\ LET r == calculate(prediction, label, spacing)
     IN  /\ distances_gt_to_pred' = r.distances_gt_to_pred
         /\ distances_pred_to_gt' = r.distances_pred_to_gt
         /\ surfel_areas_gt' = r.surfel_areas_gt
         /\ surfel_areas_pred' = r.surfel_areas_pred
  /\ pc' = "done"
  /\ UNCHANGED <<prediction, label, spacing, confusion_matrix, indexing_vars>>

Next == Distances_init

Spec == Init /\ [][Next]_vars

\* a prediction and a label are at hand; no ConfusionMatrix yet
InitCM ==
  /\ \E in \in ConfusionMatrixInputs :
       /\ prediction = in.prediction
       /\ label = in.label
  /\ spacing = <<>>
  /\ pc = "start"
  /\ Unset

\* ConfusionMatrix(prediction, label); np.logical_and raises ValueError when
\* the operands cannot be broadcast together (ConfusionMatrix_raise)
ConfusionMatrix_init ==
  /\ pc = "start"
  /\ broadcastable(prediction.shape, label.shape)
  /\ confusion_matrix' = Some(ConfusionMatrix(prediction, label))
  /\ pc' = "done"
  /\ UNCHANGED <<prediction, label, spacing, distances_gt_to_pred,
                 distances_pred_to_gt, surfel_areas_gt, surfel_areas_pred,
                 indexing_vars>>

NextCM == ConfusionMatrix_init

SpecCM == InitCM /\ [][NextCM]_vars

(***************************************************************************)
(* Constructions from arguments that do not fit: volumes of differing      *)
(* shape given to ConfusionMatrix, and equal-shaped volumes with a spacing *)
(* of another length given to Distances.  spacing = <<>> marks a call of   *)
(* ConfusionMatrix, which takes no spacing.                                *)
(***************************************************************************)
\* _calculate raises: spacing[2] (or spacing[1]) of a short spacing is an
\* IndexError, axis=2 of a 2-D array an AxisError, and
\* distance_transform_edt refuses a sampling whose length is not the rank
calculate_raises(segmentation_arr, ground_truth_arr, spacing_arg) ==
  LET promote == ndim(segmentation_arr) = 2 /\ ndim(ground_truth_arr) = 2
                   /\ Len(spacing_arg) = 2
      seg == IF promote THEN expand_dims(segmentation_arr) ELSE segmentation_arr
      gt  == IF promote THEN expand_dims(ground_truth_arr) ELSE ground_truth_arr
      sp  == IF promote THEN promote_spacing(spacing_arg) ELSE spacing_arg
  IN  IF Len(sp) < 3 THEN TRUE
      ELSE IF ndim(seg) # 3 THEN TRUE
      ELSE LET union == np_array(mask_all(gt, seg))
               idx_nonzero_0 == idx_nonzero(union, 1)
               idx_nonzero_1 == idx_nonzero(union, 2)
               idx_nonzero_2 == idx_nonzero(union, 3)
           IN  IF idx_nonzero_0 = {} THEN FALSE
               ELSE
                 LET bbox_min == << MinOf(idx_nonzero_0), MinOf(idx_nonzero_1),
                                    MinOf(idx_nonzero_2) >>
                     bbox_max == << MaxOf(idx_nonzero_0), MaxOf(idx_nonzero_1),
                                    MaxOf(idx_nonzero_2) >>
                     borders_gt ==
                       borders(correlate(cropmask_gt(gt, seg, bbox_min, bbox_max)))
                     borders_pred ==
                       borders(correlate(cropmask_pred(gt, seg, bbox_min, bbox_max)))
                 IN  /\ Len(sp) # 3
                     /\ \/ \E p \in DOMAIN borders_gt : borders_gt[p]
                        \/ \E p \in DOMAIN borders_pred : borders_pred[p]

MismatchShapes == {<<2, 1, 2>>, <<2, 2, 2>>, <<3, 1, 2>>, <<1, 2>>}

\* the volumes of a shape with at most one voxel of label 1
OneVoxelVolumes(shape) ==
  {Array(shape, F, 1) : F \in {{}} \cup {{p} : p \in Indices(shape)}}

MismatchSpacings == {<<1>>, <<1, 1>>, <<1, 1, 1>>, <<2, 1, 1, 1>>}

MismatchVolumes == UNION {OneVoxelVolumes(s) : s \in MismatchShapes}

MismatchInputs ==
  {[prediction |-> m[1], label |-> m[2], spacing |-> <<>>] :
     m \in {x \in MismatchVolumes \X MismatchVolumes : x[1].shape # x[2].shape}}
  \cup
  {[prediction |-> m[1], label |-> m[2], spacing |-> m[3]] :
     m \in {x \in MismatchVolumes \X MismatchVolumes \X MismatchSpacings :
              /\ x[1].shape = x[2].shape
              /\ Len(x[3]) # ndim(x[1])}}

InitMismatch ==
  /\ \E in \in MismatchInputs :
       /\ prediction = in.prediction
       /\ label = in.label
       /\ spacing = in.spacing
  /\ pc = "start"
  /\ Unset

ConfusionMatrix_call == spacing = <<>> /\ ConfusionMatrix_init

ConfusionMatrix_raise ==
  /\ spacing = <<>>
  /\ pc = "start"
  /\ ~broadcastable(prediction.shape, label.shape)
  /\ pc' = "error"
  /\ UNCHANGED <<prediction, label, spacing, confusion_matrix,
                 distances_gt_to_pred, distances_pred_to_gt,
                 surfel_areas_gt, surfel_areas_pred, indexing_vars>>

Distances_call ==
  /\ spacing # <<>>
  /\ ~calculate_raises(prediction, label, spacing)
  /\ Distances_init

Distances_raise ==
  /\ spacing # <<>>
  /\ pc = "start"
  /\ calculate_raises(prediction, label, spacing)
  /\ pc' = "error"
  /\ UNCHANGED <<prediction, label, spacing, confusion_matrix,
                 distances_gt_to_pred, distances_pred_to_gt,
                 surfel_areas_gt, surfel_areas_pred, indexing_vars>>

NextMismatch ==
  \/ ConfusionMatrix_call
  \/ ConfusionMatrix_raise
  \/ Distances_call
  \/ Distances_raise

SpecMismatch == InitMismatch /\ [][NextMismatch]_vars

(***************************************************************************)
(* Constructions of Distances from every pair of masks of a small volume,  *)
(* foreground at the faces of the volume or away from them.                *)
(***************************************************************************)
SmallMasks ==
  {Array(<<2, 1, 2>>, F, 1) : F \in SUBSET Indices(<<2, 1, 2>>)}

InitCrop ==
  /\ \E m \in SmallMasks \X SmallMasks, s \in Spacings3 :
       /\ prediction = m[1]
       /\ label = m[2]
       /\ spacing = s
  /\ pc = "start"
  /\ Unset

NextCrop == Distances_init

SpecCrop == InitCrop /\ [][NextCrop]_vars

(***************************************************************************)
(* VoxelWiseIndexing: an instance keeps the shape of its latest call and   *)
(* the index list built for it.  An index expression is held as the list  *)
(* of indices it was built from.                                           *)
(***************************************************************************)
\* largest number of calls made on one instance
MaxCalls == 3

\* shape[0:stop]
slice_to(shape, stop) ==
  SubSeq(shape, 1, IF stop < Len(shape) THEN stop ELSE Len(shape))

\* the positions of a grid of the given dimensions
grid_positions(dimensions) ==
  {p \in [1..Len(dimensions) -> 0..(MaxOf({dimensions[k] : k \in 1..Len(dimensions)}) - 1)] :
     \A k \in 1..Len(dimensions) : p[k] < dimensions[k]}

\* np.indices(dimensions): one grid per axis, grid k holding at every
\* position the position's index along axis k
np_indices(dimensions) ==
  [k \in 1..Len(dimensions) |-> [p \in grid_positions(dimensions) |-> p[k]]]

\* the position of flat (row-major, C order) index i of a grid
unravel(i, dimensions) ==
  [k \in 1..Len(dimensions) |->
     (i \div ProdSeq(SubSeq(dimensions, k + 1, Len(dimensions)))) % dimensions[k]]

\* indices.reshape((indices.shape[0], np.prod(indices.shape[1:]))): every
\* grid laid out in row-major order
reshape(indices, dimensions) ==
  [k \in 1..Len(indices) |->
     [j \in 1..ProdSeq(dimensions) |-> indices[k][unravel(j - 1, dimensions)]]]

\* the transpose of a matrix of n rows and m columns
transpose(matrix, n, m) ==
  [j \in 1..m |-> [k \in 1..n |-> matrix[k][j]]]

\* the list built by __call__ for a shape
voxel_indexing(shape, dimension) ==
  LET shape_without_voxel == slice_to(shape, dimension)
      indices == np_indices(shape_without_voxel)
      rows    == transpose(reshape(indices, shape_without_voxel),
                           Len(shape_without_voxel),
                           ProdSeq(shape_without_voxel))
  IN  [i \in 1..Len(rows) |-> rows[i]]

\* a comparison of the number of axes in place of self.shape == shape
cache_hit_same_rank(stored, shape) ==
  stored # None /\ Len(Val(stored)) = Len(shape)

\* self.shape == shape
cache_hit(stored, shape) == stored = Some(shape)

ImageDimensions == {1, 2, 3}

IndexingShapes ==
  {<<2, 2>>, <<2, 3>>, <<3, 2>>, <<2, 2, 2>>, <<2, 2, 3>>, <<1, 2, 2>>,
   <<2, 1, 2, 2>>}

\* a VoxelWiseIndexing(image_dimension) has been built; no call yet
InitIndexing ==
  /\ prediction = None
  /\ label = None
  /\ spacing = <<>>
  /\ pc = "ready"
  /\ confusion_matrix = None
  /\ distances_gt_to_pred = None
  /\ distances_pred_to_gt = None
  /\ surfel_areas_gt = None
  /\ surfel_areas_pred = None
  /\ image_dimension \in ImageDimensions
  /\ self_shape = None
  /\ self_indexing = None
  /\ shape_arg = None
  /\ returned = None
  /\ calls = 0
  /\ computations = 0

\* VoxelWiseIndexing.__call__(shape)
VoxelWiseIndexing_call ==
  /\ pc = "ready"
  /\ calls < MaxCalls
  /\ \E shape \in IndexingShapes :
       /\ shape_arg' = Some(shape)
       /\ IF cache_hit(self_shape, shape)
            THEN /\ returned' = self_indexing
                 /\ UNCHANGED <<self_shape, self_indexing, computations>>
            ELSE /\ self_shape' = Some(shape)
                 /\ self_indexing' = Some(voxel_indexing(shape, image_dimension))
                 /\ returned' = self_indexing'
                 /\ computations' = computations + 1
  /\ calls' = calls + 1
  /\ UNCHANGED <<prediction, label, spacing, pc, confusion_matrix,
                 distances_gt_to_pred, distances_pred_to_gt,
                 surfel_areas_gt, surfel_areas_pred, image_dimension>>

NextIndexing == VoxelWiseIndexing_call

SpecIndexing == InitIndexing /\ [][NextIndexing]_vars

(***************************************************************************)
(* Vocabulary of the properties.                                           *)
(***************************************************************************)
Constructed == pc = "done"

AllBackground(arr) == \A p \in Indices(arr.shape) : arr.data[p] = 0

BothBackground == AllBackground(prediction) /\ AllBackground(label)

IsBinary(arr) == \A p \in Indices(arr.shape) : arr.data[p] \in {0, 1}

\* the attribute holds an array of length 0
IsEmptyArray(attr) == attr = Some(<<>>)

\* the attribute holds an array whose entries never decrease
IsNonDecreasing(attr) ==
  /\ attr # None
  /\ \A i \in 1..(Len(Val(attr)) - 1) : LeqDist(Val(attr)[i], Val(attr)[i + 1])

\* the attribute holds an array of length k
HasLength(attr, k) == attr # None /\ Len(Val(attr)) = k

\* the attribute holds a non-empty array whose entries all are v
AllEntries(attr, v) ==
  /\ attr # None
  /\ Len(Val(attr)) > 0
  /\ \A i \in 1..Len(Val(attr)) : Val(attr)[i] = v

\* a mask and a spacing as three-dimensional inputs
TrailingAxis(arr) ==
  IF Len(arr.shape) = 3 THEN arr
  ELSE [shape |-> <<arr.shape[1], arr.shape[2], 1>>,
        data  |-> [p \in Indices(<<arr.shape[1], arr.shape[2], 1>>) |->
                     arr.data[<<p[1], p[2]>>]]]

TrailingOne(sp) == IF Len(sp) = 3 THEN sp ELSE <<sp[1], sp[2], 1>>

\* the border (surface) positions of a mask in the cropped and padded grid
\* of the union of prediction and label; none when the union is empty
BorderPositions(arr) ==
  IF BothBackground THEN {}
  ELSE
    LET union == np_array(mask_all(TrailingAxis(label), TrailingAxis(prediction)))
        lo    == << MinOf(idx_nonzero(union, 1)), MinOf(idx_nonzero(union, 2)),
                    MinOf(idx_nonzero(union, 3)) >>
        hi    == << MaxOf(idx_nonzero(union, 1)), MaxOf(idx_nonzero(union, 2)),
                    MaxOf(idx_nonzero(union, 3)) >>
        brd   == np_array(borders(np_array(correlate(crop(TrailingAxis(arr), lo, hi)))))
    IN  {p \in DOMAIN brd : brd[p]}

\* the square of the physical distance of p to the nearest position of Q
NearestSq(p, Q, sp) ==
  IF Q = {} THEN Inf
  ELSE MinOf({ sp[1] * sp[1] * (p[1] - q[1]) * (p[1] - q[1])
                 + sp[2] * sp[2] * (p[2] - q[2]) * (p[2] - q[2])
                 + sp[3] * sp[3] * (p[3] - q[3]) * (p[3] - q[3]) : q \in Q })

\* the array holds, as a multiset, the nearest distances from P to Q
HoldsNearestDistances(arr, P, Q, sp) ==
  /\ Len(arr) = Cardinality(P)
  /\ \A v \in {arr[i] : i \in 1..Len(arr)} \cup {NearestSq(p, Q, sp) : p \in P} :
       Cardinality({i \in 1..Len(arr) : arr[i] = v})
         = Cardinality({p \in P : NearestSq(p, Q, sp) = v})

cm == Val(confusion_matrix)

(***************************************************************************)
(* Properties of Distances (specification Spec).                           *)
(***************************************************************************)
\* C1: when prediction and label both are entirely background, the four
\* sequences of the constructed Distances are empty arrays (length 0).
C1_EmptySurfaces ==
  (Constructed /\ BothBackground) =>
     /\ IsEmptyArray(distances_gt_to_pred)
     /\ IsEmptyArray(distances_pred_to_gt)
     /\ IsEmptyArray(surfel_areas_gt)
     /\ IsEmptyArray(surfel_areas_pred)

\* C2: for every pair of masks and every spacing, both distance attributes
\* of the constructed Distances are non-decreasing sequences.
C2_Sorted ==
  Constructed =>
     /\ IsNonDecreasing(distances_gt_to_pred)
     /\ IsNonDecreasing(distances_pred_to_gt)

\* C3: for every pair of masks and every spacing, each distance sequence
\* has the length of its area sequence, which is the number of border
\* voxels of its mask.
C3_Pairing ==
  Constructed =>
     /\ HasLength(distances_gt_to_pred, Cardinality(BorderPositions(label)))
     /\ HasLength(surfel_areas_gt, Cardinality(BorderPositions(label)))
     /\ HasLength(distances_pred_to_gt, Cardinality(BorderPositions(prediction)))
     /\ HasLength(surfel_areas_pred, Cardinality(BorderPositions(prediction)))

\* C4 as stated: the two distance sequences are empty only together; none
\* is empty while the mask of the other sequence is non-empty.
C4_EmptyOnlyTogether ==
  Constructed =>
     /\ IsEmptyArray(distances_gt_to_pred) <=> IsEmptyArray(distances_pred_to_gt)
     /\ ~(IsEmptyArray(distances_gt_to_pred) /\ ~AllBackground(prediction))
     /\ ~(IsEmptyArray(distances_pred_to_gt) /\ ~AllBackground(label))

\* C4 as amended: no distance sequence is empty while its own mask is
\* non-empty (one may be empty while the other sequence is not).
C4_EmptyOnlyWithOwnMask ==
  Constructed =>
     /\ IsEmptyArray(distances_gt_to_pred) => AllBackground(label)
     /\ IsEmptyArray(distances_pred_to_gt) => AllBackground(prediction)

C4_Witness ==
  /\ Constructed
  /\ IsEmptyArray(distances_pred_to_gt)
  /\ ~AllBackground(label)
  /\ HasLength(distances_gt_to_pred, Cardinality(BorderPositions(label)))
  /\ BorderPositions(label) # {}

\* C5 as stated: ground truth with foreground and an all-background
\* prediction give empty distances_pred_to_gt and surfel_areas_pred, and a
\* non-empty distances_gt_to_pred of finite distances.
C5_FiniteWithoutPrediction ==
  (Constructed /\ ~AllBackground(label) /\ AllBackground(prediction)) =>
     /\ IsEmptyArray(distances_pred_to_gt)
     /\ IsEmptyArray(surfel_areas_pred)
     /\ distances_gt_to_pred # None
     /\ Len(Val(distances_gt_to_pred)) > 0
     /\ \A i \in 1..Len(Val(distances_gt_to_pred)) :
          Val(distances_gt_to_pred)[i] # Inf

\* C5 as amended: ground truth with foreground and an all-background
\* prediction give empty distances_pred_to_gt and surfel_areas_pred, and a
\* non-empty distances_gt_to_pred whose every entry is +infinity.
C5_InfiniteWithoutPrediction ==
  (Constructed /\ ~AllBackground(label) /\ AllBackground(prediction)) =>
     /\ IsEmptyArray(distances_pred_to_gt)
     /\ IsEmptyArray(surfel_areas_pred)
     /\ AllEntries(distances_gt_to_pred, Inf)

\* Scenario B: one ground-truth voxel at (2,2,2) of a 5x5x5 grid
C5_Witness ==
  /\ Constructed
  /\ label = Array(<<5, 5, 5>>, {<<2, 2, 2>>}, 1)
  /\ AllBackground(prediction)
  /\ HasLength(distances_gt_to_pred, 8)

\* C6: when prediction and label are identical and have foreground, every
\* entry of both distance sequences is 0, the two distance sequences are
\* equal and the two area sequences are equal.
C6_IdenticalMasks ==
  (Constructed /\ prediction = label /\ ~AllBackground(label)) =>
     /\ AllEntries(distances_gt_to_pred, 0)
     /\ AllEntries(distances_pred_to_gt, 0)
     /\ distances_gt_to_pred = distances_pred_to_gt
     /\ surfel_areas_gt # None
     /\ surfel_areas_gt = surfel_areas_pred

C6_Witness ==
  /\ Constructed
  /\ prediction = label
  /\ spacing = <<2, 1, 3>>
  /\ HasLength(distances_gt_to_pred, 26)
  /\ AllEntries(distances_pred_to_gt, 0)

\* C7: Distances of two 2-D masks with spacing (sx, sy) has the four
\* sequences of Distances of the masks with a trailing axis of size 1 and
\* spacing (sx, sy, 1).
C7_Promotion ==
  (Constructed /\ ndim(prediction) = 2) =>
     LET r == calculate(TrailingAxis(prediction), TrailingAxis(label),
                        TrailingOne(spacing))
     IN  /\ distances_gt_to_pred = r.distances_gt_to_pred
         /\ distances_pred_to_gt = r.distances_pred_to_gt
         /\ surfel_areas_gt = r.surfel_areas_gt
         /\ surfel_areas_pred = r.surfel_areas_pred

C7_Witness ==
  /\ Constructed
  /\ ndim(prediction) = 2
  /\ spacing = <<2, 1>>
  /\ distances_gt_to_pred # None
  /\ \E i \in 1..Len(Val(distances_gt_to_pred)) : Val(distances_gt_to_pred)[i] = 4

\* C8: once the distance transform is reached (the union of the masks is
\* not empty), distances_gt_to_pred holds, as a multiset, for each border
\* position p of the ground truth the minimum over the border positions q
\* of the prediction of the spacing-weighted Euclidean distance of p and q,
\* +infinity when the prediction has no border position; symmetrically for
\* distances_pred_to_gt.
C8_NearestBorderDistance ==
  (Constructed /\ ~BothBackground) =>
     /\ distances_gt_to_pred # None
     /\ distances_pred_to_gt # None
     /\ HoldsNearestDistances(Val(distances_gt_to_pred), BorderPositions(label),
                              BorderPositions(prediction), TrailingOne(spacing))
     /\ HoldsNearestDistances(Val(distances_pred_to_gt), BorderPositions(prediction),
                              BorderPositions(label), TrailingOne(spacing))

\* Scenario D: neighbouring voxels along axis 0 under spacing (2,1,1) are
\* at distance 2 (square 4)
C8_Witness ==
  /\ Constructed
  /\ spacing = <<2, 1, 1>>
  /\ label = Array(<<5, 5, 5>>, {<<2, 2, 2>>}, 1)
  /\ prediction = Array(<<5, 5, 5>>, {<<3, 2, 2>>}, 1)
  /\ Val(distances_gt_to_pred) = <<0, 0, 0, 0, 4, 4, 4, 4>>

(***************************************************************************)
(* Properties of ConfusionMatrix (specification SpecCM).                   *)
(***************************************************************************)
\* C9 as stated: for all volumes, whatever their label values,
\* tp + tn + fp + fn = n and n is the number of voxels.
C9_Completeness ==
  Constructed =>
     /\ cm.tp + cm.tn + cm.fp + cm.fn = cm.n
     /\ cm.n = Cardinality(Indices(prediction.shape))

\* C9 as amended: n is the number of voxels, and tp + tn + fp + fn = n
\* when every voxel of both volumes is 0 or 1.
C9_CompletenessBinary ==
  Constructed =>
     /\ cm.n = Cardinality(Indices(prediction.shape))
     /\ (IsBinary(prediction) /\ IsBinary(label)) =>
           cm.tp + cm.tn + cm.fp + cm.fn = cm.n

C9_Witness ==
  /\ Constructed
  /\ IsBinary(prediction) /\ IsBinary(label)
  /\ cm.tp = 1 /\ cm.tn = 1 /\ cm.fp = 1 /\ cm.fn = 1 /\ cm.n = 4

\* C10: when prediction equals label elementwise, fp = 0 and fn = 0; two
\* all-background 4x4x4 volumes give tp = 0, fp = 0, fn = 0 and tn = 64.
C10_Identity ==
  (Constructed /\ prediction = label) =>
     /\ cm.fp = 0
     /\ cm.fn = 0
     /\ (prediction.shape = <<4, 4, 4>> /\ AllBackground(prediction)) =>
           (cm.tp = 0 /\ cm.tn = 64)

C10_Witness ==
  /\ Constructed
  /\ prediction = label
  /\ prediction.shape = <<4, 4, 4>>
  /\ AllBackground(prediction)
  /\ cm.tn = 64 /\ cm.fp = 0 /\ cm.fn = 0

(***************************************************************************)
(* Properties of the surface-area table (specification Spec).              *)
(***************************************************************************)
\* C11: in the surface-area table that _calculate builds for the spacing
\* of the call, the entries of neighbour code 0 and of neighbour code 255
\* are exactly 0.
C11_ZeroAreaCodes ==
  LET area_table == neighbour_code_to_surface_area(TrailingOne(spacing))
  IN  area_table[0] = 0 /\ area_table[255] = 0

\* a construction under an anisotropic spacing in which code 255 occurs
\* (an all-foreground 2x2x2 ground truth) and other codes have area > 0
C11_Witness ==
  /\ Constructed
  /\ spacing = <<2, 1, 3>>
  /\ label = Array(<<2, 2, 2>>, Indices(<<2, 2, 2>>), 1)
  /\ HasLength(surfel_areas_gt, 26)
  /\ \A i \in 1..26 : Val(surfel_areas_gt)[i] > 0

(***************************************************************************)
(* Properties of constructions from arguments that do not fit              *)
(* (specification SpecMismatch).                                           *)
(***************************************************************************)
\* the volumes differ in shape, or the spacing of a Distances call has not
\* the length of the (possibly promoted) volume dimensionality
Mismatched ==
  \/ prediction.shape # label.shape
  \/ /\ spacing # <<>>
     /\ ~(Len(spacing) = 3 /\ ndim(prediction) = 3)
     /\ ~(Len(spacing) = 2 /\ ndim(prediction) = 2)

\* C12: a ConfusionMatrix or Distances construction from volumes of
\* differing shape, or a Distances construction from a spacing of the wrong
\* length, fails with an error: no such construction completes.
C12_MismatchFails == Mismatched => ~Constructed

(***************************************************************************)
(* Properties of the neighbour codes (specification Spec).                 *)
(***************************************************************************)
\* a mask cropped to the bounding box of the union of prediction and label
\* and padded by one voxel on the upper side of each axis (union not empty)
CroppedPadded(arr) ==
  LET union == np_array(mask_all(TrailingAxis(label), TrailingAxis(prediction)))
      lo    == << MinOf(idx_nonzero(union, 1)), MinOf(idx_nonzero(union, 2)),
                  MinOf(idx_nonzero(union, 3)) >>
      hi    == << MaxOf(idx_nonzero(union, 1)), MaxOf(idx_nonzero(union, 2)),
                  MaxOf(idx_nonzero(union, 3)) >>
  IN  crop(TrailingAxis(arr), lo, hi)

Corners == {<<a, b, c>> : a \in {0, 1}, b \in {0, 1}, c \in {0, 1}}

\* 128, 64, 32, 16, 8, 4, 2, 1 for (0,0,0), (0,0,1), ..., (1,1,1)
CornerWeight(d) == 2 ^ (7 - (4 * d[1] + 2 * d[2] + d[3]))

\* the corners, of the 2x2x2 neighbourhood whose (1,1,1) corner is p, that
\* are foreground voxels of the volume
ForegroundCorners(vol, p) ==
  {d \in Corners :
     LET q == <<p[1] - 1 + d[1], p[2] - 1 + d[2], p[3] - 1 + d[3]>>
     IN  q \in Indices(vol.shape) /\ vol.data[q] = 1}

RECURSIVE WeightSum(_)
WeightSum(D) ==
  IF D = {} THEN 0
  ELSE LET d == CHOOSE x \in D : TRUE
       IN  CornerWeight(d) + WeightSum(D \ {d})

NeighbourCodesAsStated(arr) ==
  LET vol   == CroppedPadded(arr)
      codes == np_array(correlate(vol))
      brd   == borders(codes)
  IN  \A p \in Indices(vol.shape) :
        /\ codes[p] = WeightSum(ForegroundCorners(vol, p))
        /\ codes[p] \in 0..255
        /\ codes[p] = 0 <=> ForegroundCorners(vol, p) = {}
        /\ codes[p] = 255 <=> ForegroundCorners(vol, p) = Corners
        /\ brd[p] <=> (codes[p] # 0 /\ codes[p] # 255)

\* the positions whose neighbourhood is partly, not wholly, foreground
PartlyForeground(arr) ==
  LET vol == CroppedPadded(arr)
  IN  {p \in Indices(vol.shape) :
         ForegroundCorners(vol, p) # {} /\ ForegroundCorners(vol, p) # Corners}

\* C13: the neighbour code of each position of a cropped and padded mask
\* is the sum of the kernel weights of the foreground voxels of the 2x2x2
\* neighbourhood whose (1,1,1) corner is the position (outside counts as
\* background); it lies in 0..255, is 0 exactly when no corner is
\* foreground and 255 exactly when all eight are, and the position is a
\* border voxel, with an entry in the distance sequence of its side,
\* exactly when the code is neither.
C13_NeighbourCodes ==
  (Constructed /\ ~BothBackground) =>
     /\ NeighbourCodesAsStated(label)
     /\ NeighbourCodesAsStated(prediction)
     /\ HasLength(distances_gt_to_pred, Cardinality(PartlyForeground(label)))
     /\ HasLength(distances_pred_to_gt, Cardinality(PartlyForeground(prediction)))

\* an all-foreground ground truth (code 255 at the centre) and a prediction
\* of two opposite corners (code 128 + 1 at the centre)
C13_Witness ==
  /\ Constructed
  /\ label = Array(<<2, 2, 2>>, Indices(<<2, 2, 2>>), 1)
  /\ prediction = Array(<<2, 2, 2>>, {<<0, 0, 0>>, <<1, 1, 1>>}, 1)
  /\ correlate(CroppedPadded(label))[<<1, 1, 1>>] = 255
  /\ correlate(CroppedPadded(prediction))[<<1, 1, 1>>] = 129
  /\ correlate(CroppedPadded(prediction))[<<2, 2, 2>>] = 128
  /\ HasLength(distances_gt_to_pred, 26)
  /\ HasLength(distances_pred_to_gt, 15)

(***************************************************************************)
(* Properties of the sorted surface elements (specification Spec).         *)
(***************************************************************************)
\* the two arrays hold, index by index, a permutation of the pairs
\* selected at the border positions of arr
HoldsSurfels(dists, areas, arr, other) ==
  LET P      == BorderPositions(arr)
      Q      == BorderPositions(other)
      sp     == TrailingOne(spacing)
      codes  == np_array(correlate(CroppedPadded(arr)))
      areas_of_codes == neighbour_code_to_surface_area(sp)
      surfel == np_array([p \in P |->
                            << NearestSq(p, Q, sp), areas_of_codes[codes[p]] >>])
  IN  /\ Len(dists) = Cardinality(P)
      /\ Len(areas) = Cardinality(P)
      /\ \A v \in {<<dists[i], areas[i]>> : i \in 1..Len(dists)}
                    \cup {surfel[p] : p \in P} :
           Cardinality({i \in 1..Len(dists) : <<dists[i], areas[i]>> = v})
             = Cardinality({p \in P : surfel[p] = v})

\* C14: once the surface elements are selected (the union of the masks is
\* not empty), the pairs (distances[i], surfel_areas[i]) of each side are a
\* permutation of the (distance, area) pairs selected at that side's border
\* positions: the area at index i is of the voxel of the distance at i.
C14_PairingPreserved ==
  (Constructed /\ ~BothBackground) =>
     /\ distances_gt_to_pred # None /\ surfel_areas_gt # None
     /\ distances_pred_to_gt # None /\ surfel_areas_pred # None
     /\ HoldsSurfels(Val(distances_gt_to_pred), Val(surfel_areas_gt),
                     label, prediction)
     /\ HoldsSurfels(Val(distances_pred_to_gt), Val(surfel_areas_pred),
                     prediction, label)

\* a construction in which a nearer surface element has the larger area,
\* so that sorting the areas on their own would break the pairs
C14_Witness ==
  /\ Constructed
  /\ distances_gt_to_pred # None
  /\ \E i, j \in 1..Len(Val(distances_gt_to_pred)) :
       /\ i < j
       /\ Val(distances_gt_to_pred)[i] < Val(distances_gt_to_pred)[j]
       /\ Val(surfel_areas_gt)[i] > Val(surfel_areas_gt)[j]

\* a comes before b in lexicographic order
LexLess(a, b) ==
  \E k \in 1..Len(a) : a[k] < b[k] /\ \A j \in 1..(k - 1) : a[j] = b[j]

\* list holds every position of shape[0:dimension] once, in row-major order
IsRowMajorList(list, shape, dimension) ==
  LET n == IF dimension < Len(shape) THEN dimension ELSE Len(shape)
  IN  /\ Len(list) = ProdSeq([k \in 1..n |-> shape[k]])
      /\ \A i \in 1..Len(list) :
           /\ Len(list[i]) = n
           /\ \A k \in 1..n : list[i][k] \in 0..(shape[k] - 1)
      /\ \A i \in 1..(Len(list) - 1) : LexLess(list[i], list[i + 1])

\* C15: every call on a VoxelWiseIndexing returns the row-major index list
\* of its shape[0:image_dimension]; a call with the stored shape returns the
\* stored list and builds nothing, a call with another shape stores that
\* shape and the list built for it
C15_CachedIndexing ==
  [][calls' = calls + 1 =>
       LET shape == Val(shape_arg')
       IN  /\ returned' # None
           /\ IsRowMajorList(Val(returned'), shape, image_dimension)
           /\ self_shape = Some(shape) =>
                /\ returned' = self_indexing
                /\ computations' = computations
                /\ UNCHANGED <<self_shape, self_indexing>>
           /\ self_shape # Some(shape) =>
                /\ self_shape' = Some(shape)
                /\ self_indexing' = returned'
                /\ computations' = computations + 1]_vars

\* a third call that repeats the shape of the second, after a change of shape
C15_Witness ==
  /\ calls = 3
  /\ computations = 2
  /\ Len(Val(returned)) > 1
  /\ Len(Val(shape_arg)) > image_dimension

(***************************************************************************)
(* Properties of the border of a mask with foreground (specification Spec).*)
(***************************************************************************)
\* the mask has foreground only if some neighbour code of its cropped and
\* padded grid is neither 0 nor 255, and its distance sequence is empty
\* exactly when it has no foreground
BorderOfForeground(dists, arr) ==
  LET codes == np_array(correlate(CroppedPadded(arr)))
  IN  /\ ~AllBackground(arr) =>
           \E p \in DOMAIN codes : codes[p] # 0 /\ codes[p] # 255
      /\ IsEmptyArray(dists) <=> AllBackground(arr)

\* C16: when the union of the masks is not empty, a mask with foreground
\* has a border voxel (its code map is neither all 0 nor all 255), and the
\* distance sequence of a side is empty exactly when the mask of that side
\* is all background.
C16_BorderOfForeground ==
  (Constructed /\ ~BothBackground) =>
     /\ BorderOfForeground(distances_gt_to_pred, label)
     /\ BorderOfForeground(distances_pred_to_gt, prediction)

\* a ground truth that fills its bounding box, against no prediction: all
\* positions of the 3x3x3 grid but the one of code 255 are border voxels
C16_Witness ==
  /\ Constructed
  /\ label = Array(<<2, 2, 2>>, Indices(<<2, 2, 2>>), 1)
  /\ AllBackground(prediction)
  /\ HasLength(distances_gt_to_pred, 26)
  /\ IsEmptyArray(distances_pred_to_gt)

(***************************************************************************)
(* Properties of the bounding-box crop (specification SpecCrop).           *)
(***************************************************************************)
\* the shape of the larger volume and the offsets at which a mask is set
\* into it
EmbedShape == <<3, 2, 3>>

EmbedOffsets == {<<a, b, c>> : a \in {0, 1}, b \in {0, 1}, c \in {0, 1}}

\* arr set at offset off into an all-background volume of shape EmbedShape
Embed(arr, off) ==
  [shape |-> EmbedShape,
   data  |-> [p \in Indices(EmbedShape) |->
                at(arr, <<p[1] - off[1], p[2] - off[2], p[3] - off[3]>>)]]

\* C17: the pair of masks set at any offset into a larger all-background
\* volume, under the same spacing, gives the same four attributes as the
\* pair itself.
C17_CropInvariance ==
  Constructed =>
     \A off \in EmbedOffsets :
        LET r == calculate(Embed(prediction, off), Embed(label, off), spacing)
        IN  /\ r.distances_gt_to_pred = distances_gt_to_pred
            /\ r.distances_pred_to_gt = distances_pred_to_gt
            /\ r.surfel_areas_gt = surfel_areas_gt
            /\ r.surfel_areas_pred = surfel_areas_pred

\* masks whose union starts away from the origin of the small volume and
\* is moved further by the offset (1, 1, 1), with both sides non-empty
C17_Witness ==
  /\ Constructed
  /\ prediction = Array(<<2, 1, 2>>, {<<1, 0, 1>>}, 1)
  /\ label = Array(<<2, 1, 2>>, {<<0, 0, 1>>, <<1, 0, 1>>}, 1)
  /\ spacing = <<2, 1, 3>>
  /\ Embed(label, <<1, 1, 1>>).data[<<2, 1, 2>>] = 1
  /\ Embed(label, <<1, 1, 1>>).data[<<0, 0, 1>>] = 0
  /\ HasLength(distances_gt_to_pred, 12)
  /\ HasLength(distances_pred_to_gt, 8)

(***************************************************************************)
(* Properties of the order of equal distances (specification Spec).        *)
(***************************************************************************)
\* consecutive pairs (distance, area) are in lexicographic order
InLexicographicOrder(dists, areas) ==
  /\ Len(dists) = Len(areas)
  /\ \A i \in 1..(Len(dists) - 1) :
       /\ LeqDist(dists[i], dists[i + 1])
       /\ dists[i] = dists[i + 1] => areas[i] <= areas[i + 1]

\* the pairs (distance to the border of other, area) of the border voxels
\* of arr in scan (row-major) order
ScanOrder(arr, other) ==
  LET vol   == CroppedPadded(arr)
      codes == np_array(correlate(vol))
      pos   == true_positions(np_array(borders(codes)), vol.shape)
      Q     == BorderPositions(other)
      sp    == TrailingOne(spacing)
      areas_of_codes == neighbour_code_to_surface_area(sp)
  IN  [i \in 1..Len(pos) |->
         << NearestSq(pos[i], Q, sp), areas_of_codes[codes[pos[i]]] >>]

\* C18: on each side the pairs (distance, area) are in lexicographic
\* order: distances never decrease, and among consecutive entries of equal
\* distance the areas never decrease, whatever the scan order was.
C18_TiesByArea ==
  (Constructed /\ ~BothBackground) =>
     /\ distances_gt_to_pred # None /\ surfel_areas_gt # None
     /\ distances_pred_to_gt # None /\ surfel_areas_pred # None
     /\ InLexicographicOrder(Val(distances_gt_to_pred), Val(surfel_areas_gt))
     /\ InLexicographicOrder(Val(distances_pred_to_gt), Val(surfel_areas_pred))

\* two border voxels of the ground truth at the same distance, the one
\* scanned first having the larger area
C18_Witness ==
  /\ Constructed
  /\ ~BothBackground
  /\ LET scan == ScanOrder(label, prediction)
     IN  \E i, j \in 1..Len(scan) :
           /\ i < j
           /\ scan[i][1] = scan[j][1]
           /\ scan[i][2] > scan[j][2]
  /\ \E i \in 1..(Len(Val(distances_gt_to_pred)) - 1) :
       /\ Val(distances_gt_to_pred)[i] = Val(distances_gt_to_pred)[i + 1]
       /\ Val(surfel_areas_gt)[i] < Val(surfel_areas_gt)[i + 1]

====
